---- MODULE Spec2Model ----
(***************************************************************************)
(* Green_Path_AI: the dual-objective A* route search                       *)
(* (src/src/pathfinding_algo.py), the edge weighting that feeds it         *)
(* (src/scripts/add_pollution_weights.py) and the request handler that     *)
(* runs it twice (src/src/app.py).                                         *)
(*                                                                         *)
(* Units.  Lengths and distances are metres, times are seconds, pollution  *)
(* is the raw score.  Every road of the model is a whole number of         *)
(* kilometres long, so that length/1000/speed*3600 and                     *)
(* length*multiplier*penalty are whole numbers for every entry of the two  *)
(* tables and the arithmetic of the program is exact.  Multipliers and the *)
(* intersection penalty are carried in tenths (1.6 is 16, 1.1 is 11).      *)
(* Quotients that need not be whole (minutes, kilometres) are kept as      *)
(* numerator and denominator.                                              *)
(*                                                                         *)
(* Coordinates.  All nodes lie on one meridian; a node's 'y' is its arc    *)
(* length from the equator in metres, for which the great-circle formula   *)
(* is the absolute difference.                                             *)
(***************************************************************************)
EXTENDS Integers, Sequences, FiniteSets, TLC

\* Number of nodes of the generated road networks.
NumNodes == 4

\* float('inf'), the cost of the unreachable result.
Infinity == 1000000000

\* 80 km/h, the speed the time heuristic divides by.
MAX_SPEED_KMH == 80

\* The fallback edge cost when an edge has neither the weight nor a length.
DEFAULT_LENGTH == 100

\* A node identifier that is in no graph.
UnknownNode == NumNodes + 1

Criteria == {"time", "pollution"}

----------------------------------------------------------------------------
\* Generic helpers.

Abs(x) == IF x < 0 THEN -x ELSE x

Min(S) == CHOOSE x \in S : \A y \in S : x <= y

RECURSIVE SortedSeq(_)
\* The elements of a finite set of integers, ascending.
SortedSeq(S) ==
    IF S = {} THEN << >>
    ELSE LET m == Min(S) IN <<m>> \o SortedSeq(S \ {m})

RECURSIVE Reverse(_)
Reverse(s) == IF s = << >> THEN << >> ELSE Reverse(Tail(s)) \o <<Head(s)>>

\* dict.get(key, default)
Get(d, k, default) == IF k \in DOMAIN d THEN d[k] ELSE default

\* a / b, kept exact.
Div(a, b) == [num |-> a, den |-> b]

----------------------------------------------------------------------------
\* add_pollution_weights.py: the two road-type tables.

\* Pollution multipliers, in tenths.
POLLUTION_FACTORS ==
    [living_street |-> 30, busway |-> 200, residential |-> 25,
     unclassified |-> 22, primary |-> 16, primary_link |-> 17,
     secondary |-> 18, secondary_link |-> 19, tertiary |-> 20,
     tertiary_link |-> 21, motorway |-> 10, motorway_link |-> 15,
     trunk |-> 12, trunk_link |-> 15, default |-> 18]

speed_limits_kmh ==
    [living_street |-> 10, busway |-> 1, residential |-> 20,
     unclassified |-> 20, primary |-> 40, primary_link |-> 20,
     secondary |-> 30, secondary_link |-> 20, tertiary |-> 25,
     tertiary_link |-> 15, motorway |-> 80, motorway_link |-> 40,
     trunk |-> 60, trunk_link |-> 30, default |-> 30]

----------------------------------------------------------------------------
\* The graph: G.nodes (with 'y'), and G[u][v], the sequence of the parallel
\* edges from u to v in key order (key 0 first), each a dict of attributes.

Nodes == 1 .. NumNodes

\* Node n lies n kilometres up the meridian.
NodeY(n) == n * 1000

\* The roads a generated network may have between neighbouring nodes, one
\* kilometre apart: none, one primary road, or a residential street (key 0)
\* beside a motorway (key 1).
ChainOptions ==
    { << >>,
      << [highway |-> "primary", length |-> 1000] >>,
      << [highway |-> "residential", length |-> 1000],
         [highway |-> "motorway", length |-> 1000] >> }

\* The roads a generated network may have between nodes two kilometres
\* apart: none, a direct trunk road, or a winding road of a type the tables
\* do not list.
SkipOptions ==
    { << >>,
      << [highway |-> "trunk", length |-> 2000] >>,
      << [highway |-> "service", length |-> 3000] >> }

ChainPairs == {<<n, n + 1>> : n \in 1 .. (NumNodes - 1)}
SkipPairs == {<<n, n + 2>> : n \in 1 .. (NumNodes - 2)}

\* The raw networks: a choice of roads for every pair, each road two-way
\* (the same parallel edges in both directions).
RawChoices ==
    {c1 @@ c2 : c1 \in [ChainPairs -> ChainOptions],
                c2 \in [SkipPairs -> SkipOptions]}

RawGraph(c) ==
    [nodes |-> Nodes,
     y |-> [n \in Nodes |-> NodeY(n)],
     adj |-> [u \in Nodes |-> [v \in Nodes |->
                IF <<u, v>> \in DOMAIN c THEN c[<<u, v>>]
                ELSE IF <<v, u>> \in DOMAIN c THEN c[<<v, u>>]
                ELSE << >>]]]

\* G.degree(n) of a MultiDiGraph: the edges into n plus the edges out of n.
Degree(G, n) ==
    LET Sum[S \in SUBSET G.nodes] ==
            IF S = {} THEN 0
            ELSE LET m == CHOOSE x \in S : TRUE
                 IN Len(G.adj[n][m]) + Len(G.adj[m][n]) + Sum[S \ {m}]
    IN Sum[G.nodes]

\* One edge's attributes after add_pollution_weights (lines 85-114).
WeightedEdge(G, u, v, data) ==
    LET highway == Get(data, "highway", "default")
        length == Get(data, "length", 100)
        pollution_multiplier ==
            Get(POLLUTION_FACTORS, highway, POLLUTION_FACTORS["default"])
        intersection_penalty ==
            IF Degree(G, u) > 2 \/ Degree(G, v) > 2 THEN 11 ELSE 10
        road_speed == Get(speed_limits_kmh, highway, speed_limits_kmh["default"])
    IN [highway |-> highway,
        length |-> length,
        pollution |-> (length * pollution_multiplier * intersection_penalty) \div 100,
        pollution_multiplier |-> pollution_multiplier,
        road_type |-> highway,
        time |-> (length * 3600) \div (1000 * road_speed)]

add_pollution_weights(G) ==
    [G EXCEPT !.adj = [u \in G.nodes |-> [v \in G.nodes |->
        [k \in DOMAIN G.adj[u][v] |-> WeightedEdge(G, u, v, G.adj[u][v][k])]]]]

WeightedGraphs == {add_pollution_weights(RawGraph(c)) : c \in RawChoices}

\* The four-node line A-B-C-D (nodes 1..4) whose edges carry only 'time'
\* 10, 5, 20 and 'pollution' 5, 15, 5, in both directions.  The nodes share
\* one coordinate.
LineGraph ==
    LET e12 == << [time |-> 10, pollution |-> 5] >>
        e23 == << [time |-> 5, pollution |-> 15] >>
        e34 == << [time |-> 20, pollution |-> 5] >>
        N == 1 .. 4
    IN [nodes |-> N,
        y |-> [n \in N |-> 0],
        adj |-> [u \in N |-> [v \in N |->
                   IF {u, v} = {1, 2} THEN e12
                   ELSE IF {u, v} = {2, 3} THEN e23
                   ELSE IF {u, v} = {3, 4} THEN e34
                   ELSE << >>]]]

Graphs == WeightedGraphs \cup {LineGraph}

\* A graph whose trunk and service roads carry only the attributes of keep.
Lacking(g, keep) ==
    [g EXCEPT !.adj = [u \in g.nodes |-> [v \in g.nodes |->
        [k \in DOMAIN g.adj[u][v] |->
            LET d == g.adj[u][v][k]
            IN IF d.highway \in {"trunk", "service"}
               THEN [a \in DOMAIN d \cap keep |-> d[a]]
               ELSE d]]]]

\* The weighted networks with a direct road that has lost 'time' and
\* 'pollution', or those and 'length'.
LackingGraphs ==
    {Lacking(g, keep) :
        g \in {x \in WeightedGraphs :
                  \E u \in x.nodes : \E v \in x.nodes : \E k \in DOMAIN x.adj[u][v] :
                      x.adj[u][v][k].highway \in {"trunk", "service"}},
        keep \in {{"highway", "road_type", "length"}, {"highway", "road_type"}}}

----------------------------------------------------------------------------
\* pathfinding_algo.py

\* haversine_distance (lines 11-19) for two points of one meridian.
haversine_distance(y1, y2) == Abs(y2 - y1)

\* Lines 100-109 with the time branch left unscaled.
h_score_unscaled(weight, h_dist) == h_dist

\* Lines 100-109: the heuristic of a straight-line distance h_dist.
\* MAX_SPEED_MPS is MAX_SPEED_KMH / 3.6.
h_score(weight, h_dist) ==
    IF weight = "time" THEN (h_dist * 36) \div (MAX_SPEED_KMH * 10)
    ELSE IF weight = "pollution" THEN h_dist
    ELSE h_dist

\* Line 80: G[current][neighbor][0], the edge of key 0.
edge_data(G, u, v) == G.adj[u][v][1]

\* Line 84 with the criterion ignored.
edge_cost_ignores_weight(data, weight) == Get(data, "length", DEFAULT_LENGTH)

\* Line 84.
edge_cost(data, weight) == Get(data, weight, Get(data, "length", DEFAULT_LENGTH))

\* G.neighbors(n) answering an unknown node with no neighbours.
neighbors_lenient(g, n) ==
    [raised |-> FALSE,
     nodes |-> IF n \notin g.nodes THEN << >>
               ELSE SortedSeq({v \in g.nodes : g.adj[n][v] # << >>})]

\* G.neighbors(n) of networkx: the nodes n has an edge to, or NetworkXError
\* for a node the graph lacks.
neighbors(g, n) ==
    IF n \notin g.nodes THEN [raised |-> TRUE, nodes |-> << >>]
    ELSE [raised |-> FALSE,
          nodes |-> SortedSeq({v \in g.nodes : g.adj[n][v] # << >>})]

\* The heap ordered by f_score alone.
TupleLess_f_only(a, b) == a[1] < b[1]

\* The order of the heap's (f_score, g_score, node) tuples.
TupleLess(a, b) ==
    \/ a[1] < b[1]
    \/ a[1] = b[1] /\ a[2] < b[2]
    \/ a[1] = b[1] /\ a[2] = b[2] /\ a[3] < b[3]

\* The tuples heappop may return: those no other tuple of the heap is less
\* than.
HeapMinima(heap) == {e \in heap : \A o \in heap : ~TupleLess(o, e)}

\* The tuple heappop returns.
HeapMin(heap) == CHOOSE e \in HeapMinima(heap) : TRUE

\* Line 50 with a pop that leaves the entry in the heap.
HeapPop_peek(heap, e) == heap

\* Line 50: heappop takes the entry out of the heap.
HeapPop(heap, e) == heap \ {e}

\* dict[key] = value
Put(d, k, v) == [x \in DOMAIN d \cup {k} |-> IF x = k THEN v ELSE d[x]]

RECURSIVE WalkBack(_, _)
\* Lines 62-65: the nodes from curr back to the first one without a
\* predecessor, that one left out.
WalkBack(cf, curr) ==
    IF curr \in DOMAIN cf THEN <<curr>> \o WalkBack(cf, cf[curr]) ELSE << >>

\* Lines 61-67 without line 66.
ReconstructPath_no_start(cf, start, goal) == Reverse(WalkBack(cf, goal))

\* Lines 61-67 without the reversal of line 67.
ReconstructPath_no_reverse(cf, start, goal) == WalkBack(cf, goal) \o <<start>>

\* Lines 61-67.
ReconstructPath(cf, start, goal) == Reverse(WalkBack(cf, goal) \o <<start>>)

\* calculate_route_stats, lines 119-144.
calculate_route_stats(G, path, route_name) ==
    LET data(i) == G.adj[path[i]][path[i + 1]][1]
        Total[i \in 0 .. (Len(path) - 1)] ==
            IF i = 0
            THEN [distance |-> 0, time |-> 0, pollution |-> 0, road_types |-> << >>]
            ELSE LET prev == Total[i - 1]
                     road_type == Get(data(i), "road_type", "unknown")
                 IN [distance |-> prev.distance + Get(data(i), "length", 0),
                     time |-> prev.time + Get(data(i), "time", 0),
                     pollution |-> prev.pollution + Get(data(i), "pollution", 0),
                     road_types |-> Put(prev.road_types, road_type,
                                        Get(prev.road_types, road_type, 0) + 1)]
        total == Total[Len(path) - 1]
    IN [name |-> route_name,
        distance_km |-> Div(total.distance, 1000),
        time_minutes |-> Div(total.time, 60),
        pollution_score |-> total.pollution,
        num_segments |-> Len(path) - 1,
        road_types |-> total.road_types]

----------------------------------------------------------------------------
\* State.

VARIABLES
    G,              \* the graph app.py loads (lines 18-19)
    start_node,     \* get_route's start_node (line 38)
    end_node,       \* get_route's end_node (line 39)
    pc,             \* where get_route is
    spc,            \* per search: where astar_pathfinding is
    open_set,       \* per search: the heap, a set of <<f_score, g_score, node>>
    came_from,      \* per search
    g_scores,       \* per search
    explored_nodes, \* per search
    explored_edges, \* per search
    closed_set,     \* per search
    cur,            \* per search: current, current_g, the neighbours still to visit
    ret,            \* per search: the value returned
    stats,          \* time_stats and poll_stats
    response        \* what get_route answers

search_vars == <<spc, open_set, came_from, g_scores, explored_nodes,
                 explored_edges, closed_set, cur, ret>>

vars == <<G, start_node, end_node, pc, spc, open_set, came_from, g_scores,
          explored_nodes, explored_edges, closed_set, cur, ret, stats, response>>

NoCur == [node |-> UnknownNode, g |-> 0, todo |-> << >>]

NoRet == [path_is_none |-> TRUE, path |-> << >>, total_cost |-> 0]

NoResponse == [status |-> 0]

\* The searches of one request: 'time' at line 42, 'pollution' at line 45.
Init ==
    /\ G \in Graphs
    /\ start_node \in Nodes \cup {UnknownNode}
    /\ end_node \in Nodes \cup {UnknownNode}
    /\ pc = "time_search"
    /\ spc = [w \in Criteria |-> "idle"]
    /\ open_set = [w \in Criteria |-> {}]
    /\ came_from = [w \in Criteria |-> << >>]
    /\ g_scores = [w \in Criteria |-> << >>]
    /\ explored_nodes = [w \in Criteria |-> << >>]
    /\ explored_edges = [w \in Criteria |-> << >>]
    /\ closed_set = [w \in Criteria |-> {}]
    /\ cur = [w \in Criteria |-> NoCur]
    /\ ret = [w \in Criteria |-> NoRet]
    /\ stats = << >>
    /\ response = NoResponse

\* The same request on a graph with edges that lack attributes.
InitLacking ==
    /\ G \in LackingGraphs
    /\ start_node \in Nodes \cup {UnknownNode}
    /\ end_node \in Nodes \cup {UnknownNode}
    /\ pc = "time_search"
    /\ spc = [w \in Criteria |-> "idle"]
    /\ open_set = [w \in Criteria |-> {}]
    /\ came_from = [w \in Criteria |-> << >>]
    /\ g_scores = [w \in Criteria |-> << >>]
    /\ explored_nodes = [w \in Criteria |-> << >>]
    /\ explored_edges = [w \in Criteria |-> << >>]
    /\ closed_set = [w \in Criteria |-> {}]
    /\ cur = [w \in Criteria |-> NoCur]
    /\ ret = [w \in Criteria |-> NoRet]
    /\ stats = << >>
    /\ response = NoResponse

\* Two invocations over the graph of line 18 whose steps interleave, as the
\* searches of two requests served at once do: both search the same pair of
\* nodes, one by each criterion.
InitConc ==
    /\ G \in Graphs
    /\ start_node \in Nodes \cup {UnknownNode}
    /\ end_node \in Nodes \cup {UnknownNode}
    /\ pc = "parallel"
    /\ spc = [w \in Criteria |-> "idle"]
    /\ open_set = [w \in Criteria |-> {}]
    /\ came_from = [w \in Criteria |-> << >>]
    /\ g_scores = [w \in Criteria |-> << >>]
    /\ explored_nodes = [w \in Criteria |-> << >>]
    /\ explored_edges = [w \in Criteria |-> << >>]
    /\ closed_set = [w \in Criteria |-> {}]
    /\ cur = [w \in Criteria |-> NoCur]
    /\ ret = [w \in Criteria |-> NoRet]
    /\ stats = << >>
    /\ response = NoResponse

\* The search get_route is in; any search when the invocations interleave.
Active(w) ==
    \/ w = "time" /\ pc = "time_search"
    \/ w = "pollution" /\ pc = "poll_search"
    \/ pc = "parallel"

----------------------------------------------------------------------------
\* astar_pathfinding(G, start_node, end_node, weight)

\* Line 29: G.nodes[end_node] raises KeyError for a node the graph lacks.
EndNodeFound(g, goal) == goal \in g.nodes

\* Lines 28-46 with a goal lookup that adds the node it does not find.
Begin_adds_goal(w) ==
    /\ Active(w)
    /\ spc[w] = "idle"
    /\ G' = [G EXCEPT !.nodes = @ \cup {end_node}]
    /\ IF ~EndNodeFound(G, end_node)
       THEN /\ spc' = [spc EXCEPT ![w] = "raised"]
            /\ UNCHANGED <<open_set, g_scores>>
       ELSE /\ spc' = [spc EXCEPT ![w] = "while"]
            /\ open_set' = [open_set EXCEPT ![w] = {<<0, 0, start_node>>}]
            /\ g_scores' = [g_scores EXCEPT ![w] = Put(<< >>, start_node, 0)]
    /\ UNCHANGED <<came_from, explored_nodes, explored_edges, closed_set, cur, ret>>
    /\ UNCHANGED <<start_node, end_node, pc, stats, response>>

\* Lines 28-46.
Begin(w) ==
    /\ Active(w)
    /\ spc[w] = "idle"
    /\ IF ~EndNodeFound(G, end_node)
       THEN /\ spc' = [spc EXCEPT ![w] = "raised"]
            /\ UNCHANGED <<open_set, g_scores>>
       ELSE /\ spc' = [spc EXCEPT ![w] = "while"]
            /\ open_set' = [open_set EXCEPT ![w] = {<<0, 0, start_node>>}]
            /\ g_scores' = [g_scores EXCEPT ![w] = Put(<< >>, start_node, 0)]
    /\ UNCHANGED <<came_from, explored_nodes, explored_edges, closed_set, cur, ret>>
    /\ UNCHANGED <<G, start_node, end_node, pc, stats, response>>

\* Line 52 on one closed set for all invocations instead of line 35's own.
PoppedClosed_shared(closed, node) ==
    node \in UNION {closed_set[w] : w \in Criteria}

\* Line 52 left out.
PoppedClosed_never(closed, node) == FALSE

\* Line 52: a popped node that is already closed is skipped.
PoppedClosed(closed, node) == node \in closed

\* Line 75 left out.
NeighborClosed_never(closed, node) == FALSE

\* Line 75: a neighbour that is already closed is skipped.
NeighborClosed(closed, node) == node \in closed

\* Line 115 with a zero cost.
UnreachableResult_zero ==
    [path_is_none |-> TRUE, path |-> << >>, total_cost |-> 0]

\* Line 115.
UnreachableResult ==
    [path_is_none |-> TRUE, path |-> << >>, total_cost |-> Infinity]

\* Lines 48-74: one turn of the while loop up to the start of the for loop.
Pop(w) ==
    /\ Active(w)
    /\ spc[w] = "while"
    /\ open_set[w] # {}
    /\ \E e \in HeapMinima(open_set[w]) :
       LET current_g == e[2]
           current == e[3]
       IN /\ open_set' = [open_set EXCEPT ![w] = HeapPop(@, e)]
          /\ IF PoppedClosed(closed_set[w], current)
             THEN UNCHANGED <<spc, explored_nodes, closed_set, cur, ret>>
             ELSE /\ explored_nodes' = [explored_nodes EXCEPT ![w] = Append(@, current)]
                  /\ IF current = end_node
                     THEN /\ ret' = [ret EXCEPT ![w] =
                                 [path_is_none |-> FALSE,
                                  path |-> ReconstructPath(came_from[w], start_node, end_node),
                                  total_cost |-> current_g]]
                          /\ spc' = [spc EXCEPT ![w] = "returned"]
                          /\ UNCHANGED <<closed_set, cur>>
                     ELSE /\ closed_set' = [closed_set EXCEPT ![w] = @ \cup {current}]
                          /\ LET nb == neighbors(G, current)
                             IN IF nb.raised
                                THEN /\ spc' = [spc EXCEPT ![w] = "raised"]
                                     /\ UNCHANGED cur
                                ELSE /\ cur' = [cur EXCEPT ![w] =
                                            [node |-> current, g |-> current_g,
                                             todo |-> nb.nodes]]
                                     /\ spc' = [spc EXCEPT ![w] =
                                            IF nb.nodes = << >> THEN "while" ELSE "for"]
                          /\ UNCHANGED ret
    /\ UNCHANGED <<came_from, g_scores, explored_edges>>
    /\ UNCHANGED <<G, start_node, end_node, pc, stats, response>>

\* Line 89.
Improves(gs, neighbor, tentative_g) ==
    neighbor \notin DOMAIN gs \/ tentative_g < gs[neighbor]

\* Lines 74-112: one turn of the for loop.
Relax(w) ==
    /\ Active(w)
    /\ spc[w] = "for"
    /\ LET current == cur[w].node
           current_g == cur[w].g
           neighbor == Head(cur[w].todo)
           rest == Tail(cur[w].todo)
           tentative_g == current_g + edge_cost(edge_data(G, current, neighbor), w)
           h_dist == haversine_distance(G.y[neighbor], G.y[end_node])
           final_f == tentative_g + h_score(w, h_dist)
       IN /\ cur' = [cur EXCEPT ![w].todo = rest]
          /\ spc' = [spc EXCEPT ![w] = IF rest = << >> THEN "while" ELSE "for"]
          /\ IF /\ ~NeighborClosed(closed_set[w], neighbor)
                /\ Improves(g_scores[w], neighbor, tentative_g)
             THEN /\ came_from' = [came_from EXCEPT ![w] = Put(@, neighbor, current)]
                  /\ g_scores' = [g_scores EXCEPT ![w] = Put(@, neighbor, tentative_g)]
                  /\ explored_edges' = [explored_edges EXCEPT ![w] =
                                           Append(@, <<current, neighbor>>)]
                  /\ open_set' = [open_set EXCEPT ![w] =
                                     @ \cup {<<final_f, tentative_g, neighbor>>}]
             ELSE UNCHANGED <<came_from, g_scores, explored_edges, open_set>>
    /\ UNCHANGED <<explored_nodes, closed_set, ret>>
    /\ UNCHANGED <<G, start_node, end_node, pc, stats, response>>

\* Lines 48 and 115: the heap is empty.
Exhausted(w) ==
    /\ Active(w)
    /\ spc[w] = "while"
    /\ open_set[w] = {}
    /\ ret' = [ret EXCEPT ![w] = UnreachableResult]
    /\ spc' = [spc EXCEPT ![w] = "returned"]
    /\ UNCHANGED <<open_set, came_from, g_scores, explored_nodes, explored_edges,
                   closed_set, cur>>
    /\ UNCHANGED <<G, start_node, end_node, pc, stats, response>>

RECURSIVE RelaxAll(_, _, _, _, _, _, _)
\* Lines 74-112 for the neighbours of todo in turn, on the local state st.
RelaxAll(g, goal, weight, current, current_g, todo, st) ==
    IF todo = << >> THEN st
    ELSE LET neighbor == Head(todo)
             tentative_g ==
                 current_g + edge_cost(edge_data(g, current, neighbor), weight)
             final_f ==
                 tentative_g
                     + h_score(weight, haversine_distance(g.y[neighbor], g.y[goal]))
             st1 == IF /\ neighbor \notin st.closed_set
                       /\ \/ neighbor \notin DOMAIN st.g_scores
                          \/ tentative_g < st.g_scores[neighbor]
                    THEN [st EXCEPT
                             !.came_from = Put(@, neighbor, current),
                             !.g_scores = Put(@, neighbor, tentative_g),
                             !.explored_edges = Append(@, <<current, neighbor>>),
                             !.open_set = @ \cup {<<final_f, tentative_g, neighbor>>}]
                    ELSE st
         IN RelaxAll(g, goal, weight, current, current_g, Tail(todo), st1)

RECURSIVE WhileLoop(_, _, _, _, _)
\* Lines 48-115 on the local state st, to the return or the exception.
WhileLoop(g, start, goal, weight, st) ==
    IF st.open_set = {}
    THEN [raised |-> FALSE, path_is_none |-> TRUE, path |-> << >>,
          total_cost |-> Infinity,
          explored_nodes |-> st.explored_nodes, explored_edges |-> st.explored_edges]
    ELSE LET e == HeapMin(st.open_set)
             current_g == e[2]
             current == e[3]
             popped == [st EXCEPT !.open_set = HeapPop(@, e)]
         IN IF current \in st.closed_set
            THEN WhileLoop(g, start, goal, weight, popped)
            ELSE IF current = goal
            THEN [raised |-> FALSE, path_is_none |-> FALSE,
                  path |-> ReconstructPath(st.came_from, start, goal),
                  total_cost |-> current_g,
                  explored_nodes |-> Append(st.explored_nodes, current),
                  explored_edges |-> st.explored_edges]
            ELSE IF neighbors(g, current).raised
            THEN [raised |-> TRUE]
            ELSE WhileLoop(g, start, goal, weight,
                     RelaxAll(g, goal, weight, current, current_g,
                              neighbors(g, current).nodes,
                              [popped EXCEPT
                                  !.explored_nodes = Append(@, current),
                                  !.closed_set = @ \cup {current}]))

\* astar_pathfinding(G, start_node, end_node, weight) run from its first
\* line to its last with nothing in between: what it returns, or that it
\* raised.
astar_pathfinding(g, start, goal, weight) ==
    IF goal \notin g.nodes THEN [raised |-> TRUE]
    ELSE WhileLoop(g, start, goal, weight,
             [open_set |-> {<<0, 0, start>>},
              came_from |-> << >>,
              g_scores |-> Put(<< >>, start, 0),
              explored_nodes |-> << >>,
              explored_edges |-> << >>,
              closed_set |-> {}])

----------------------------------------------------------------------------
\* app.py: get_route

\* path_to_coords (lines 22-24), the latitudes.
path_to_coords(g, path) == [i \in DOMAIN path |-> g.y[path[i]]]

\* Python's "not route": None and the empty list are false.
Not(route) == route.path_is_none \/ route.path = << >>

\* Line 42 has returned: on to line 45.
TimeSearchDone ==
    /\ pc = "time_search"
    /\ spc["time"] = "returned"
    /\ pc' = "poll_search"
    /\ UNCHANGED <<G, start_node, end_node, stats, response>>
    /\ UNCHANGED search_vars

\* Line 45 has returned: on to line 47.
PollSearchDone ==
    /\ pc = "poll_search"
    /\ spc["pollution"] = "returned"
    /\ pc' = "check"
    /\ UNCHANGED <<G, start_node, end_node, stats, response>>
    /\ UNCHANGED search_vars

\* An exception of a search leaves get_route: the request fails.
SearchRaised ==
    /\ \E w \in Criteria : Active(w) /\ spc[w] = "raised"
    /\ pc' = "done"
    /\ response' = [status |-> 500]
    /\ UNCHANGED <<G, start_node, end_node, stats>>
    /\ UNCHANGED search_vars

\* Line 47 left out.
RouteMissing_never(time_route, poll_route) == FALSE

\* Line 47.
RouteMissing(time_route, poll_route) == Not(time_route) \/ Not(poll_route)

\* Lines 47-48.
CheckRoutes ==
    /\ pc = "check"
    /\ IF RouteMissing(ret["time"], ret["pollution"])
       THEN /\ response' = [status |-> 404]
            /\ pc' = "done"
       ELSE /\ pc' = "stats"
            /\ UNCHANGED response
    /\ UNCHANGED <<G, start_node, end_node, stats>>
    /\ UNCHANGED search_vars

\* Lines 51-52.  len(None) raises TypeError.
CalcStats ==
    /\ pc = "stats"
    /\ IF ret["time"].path_is_none \/ ret["pollution"].path_is_none
       THEN /\ pc' = "done"
            /\ response' = [status |-> 500]
            /\ UNCHANGED stats
       ELSE /\ stats' =
                 [time |-> calculate_route_stats(G, ret["time"].path, "Fastest Route"),
                  pollution |-> calculate_route_stats(G, ret["pollution"].path,
                                                      "Greenest Route")]
            /\ pc' = "respond"
            /\ UNCHANGED response
    /\ UNCHANGED <<G, start_node, end_node>>
    /\ UNCHANGED search_vars

\* One route of the response, lines 56-61 and 62-67.
RouteJson(w) ==
    [path |-> path_to_coords(G, ret[w].path),
     stats |-> stats[w],
     explored |-> path_to_coords(G, explored_nodes[w]),
     explored_edges |-> [i \in DOMAIN explored_edges[w] |->
                            path_to_coords(G, explored_edges[w][i])]]

\* Lines 55-70.
Respond ==
    /\ pc = "respond"
    /\ response' = [status |-> 200,
                    time_route |-> RouteJson("time"),
                    pollution_route |-> RouteJson("pollution")]
    /\ pc' = "done"
    /\ UNCHANGED <<G, start_node, end_node, stats>>
    /\ UNCHANGED search_vars

Next ==
    \/ \E w \in Criteria : Begin(w)
    \/ \E w \in Criteria : Pop(w)
    \/ \E w \in Criteria : Relax(w)
    \/ \E w \in Criteria : Exhausted(w)
    \/ TimeSearchDone
    \/ PollSearchDone
    \/ SearchRaised
    \/ CheckRoutes
    \/ CalcStats
    \/ Respond

Spec == Init /\ [][Next]_vars

SpecLacking == InitLacking /\ [][Next]_vars

\* get_route is one sequential computation: a step that can be taken is taken.
FairSpec == Init /\ [][Next]_vars /\ WF_vars(Next)

\* The steps of the invocations, in any order.
NextConc ==
    \/ \E w \in Criteria : Begin(w)
    \/ \E w \in Criteria : Pop(w)
    \/ \E w \in Criteria : Relax(w)
    \/ \E w \in Criteria : Exhausted(w)

SpecConc == InitConc /\ [][NextConc]_vars

----------------------------------------------------------------------------
\* What the properties are stated with.

\* A search has returned a path.
Found(w) == spc[w] = "returned" /\ ~ret[w].path_is_none

\* The least cost, under a criterion, of the parallel edges from u to v.
MinEdgeCost(g, u, v, weight) ==
    Min({edge_cost(g.adj[u][v][k], weight) : k \in DOMAIN g.adj[u][v]})

\* A parallel edge from u to v of least cost under a criterion.
MinEdge(g, u, v, weight) ==
    LET k == CHOOSE i \in DOMAIN g.adj[u][v] :
                 edge_cost(g.adj[u][v][i], weight) = MinEdgeCost(g, u, v, weight)
    IN g.adj[u][v][k]

RECURSIVE BestFrom(_, _, _, _, _)
\* The least total cost over all simple paths from u to goal that avoid the
\* nodes of visited, by exhaustive enumeration; Infinity when there is none.
BestFrom(g, u, goal, weight, visited) ==
    IF u = goal THEN 0
    ELSE LET next == {v \in g.nodes \ visited : g.adj[u][v] # << >>}
             via == {MinEdgeCost(g, u, v, weight)
                        + BestFrom(g, v, goal, weight, visited \cup {v}) : v \in next}
         IN IF via = {} THEN Infinity
            ELSE IF Min(via) >= Infinity THEN Infinity ELSE Min(via)

\* The least total cost over all paths from u to goal.
MinPathCost(g, u, goal, weight) == BestFrom(g, u, goal, weight, {u})

Reachable(g, u, goal) == MinPathCost(g, u, goal, "length") < Infinity

\* The heuristic of a node.
Heuristic(g, n, goal, weight) ==
    h_score(weight, haversine_distance(g.y[n], g.y[goal]))

\* The heuristic never exceeds the least remaining cost.
Admissible(g, goal, weight) ==
    \A n \in g.nodes : Heuristic(g, n, goal, weight) <= MinPathCost(g, n, goal, weight)

\* The heuristic drops along an edge by no more than the edge costs.
Consistent(g, goal, weight) ==
    \A u \in g.nodes : \A v \in g.nodes : \A k \in DOMAIN g.adj[u][v] :
        Heuristic(g, u, goal, weight)
            <= edge_cost(g.adj[u][v][k], weight) + Heuristic(g, v, goal, weight)

\* Both nodes of the request are nodes of the graph.
NodesKnown == start_node \in G.nodes /\ end_node \in G.nodes

----------------------------------------------------------------------------
\* C1: with an admissible and consistent heuristic, the cost a successful
\* search returns is the least total cost over all paths from start to goal
\* under its criterion, found by exhaustive enumeration.
C1_ReturnsMinimumCost ==
    \A w \in Criteria :
        (/\ Found(w)
         /\ Admissible(G, end_node, w)
         /\ Consistent(G, end_node, w))
        => ret[w].total_cost = MinPathCost(G, start_node, end_node, w)

\* C2: a neighbour reached over parallel edges is relaxed with the least of
\* their costs: each recorded cost is the predecessor's cost plus the least
\* cost of the edges from the predecessor.
C2_RelaxUsesMinimumEdge ==
    \A w \in Criteria : \A n \in DOMAIN came_from[w] :
        g_scores[w][n] =
            g_scores[w][came_from[w][n]] + MinEdgeCost(G, came_from[w][n], n, w)

\* The sum of one attribute of the key-0 edges along a path.
PathSum(g, path, attr) ==
    LET S[i \in 0 .. (Len(path) - 1)] ==
            IF i = 0 THEN 0 ELSE S[i - 1] + g.adj[path[i]][path[i + 1]][1][attr]
    IN S[Len(path) - 1]

\* C3: the cost a successful search returns is the sum of its criterion's
\* attribute over the edges of the returned path, recomputed from the graph
\* and, once the statistics exist, as they report it; on the line graph
\* A-B-C-D the time search from A to D returns 35 and the pollution search
\* 25 for the same path.
C3_CostIsSumAlongPath ==
    /\ \A w \in Criteria :
          Found(w) => ret[w].total_cost = PathSum(G, ret[w].path, w)
    /\ stats # << >> =>
          /\ ret["time"].total_cost * stats["time"].time_minutes.den
                = stats["time"].time_minutes.num * 60
          /\ ret["pollution"].total_cost = stats["pollution"].pollution_score
    /\ (G = LineGraph /\ start_node = 1 /\ end_node = 4) =>
          /\ Found("time") =>
                ret["time"].path = <<1, 2, 3, 4>> /\ ret["time"].total_cost = 35
          /\ Found("pollution") =>
                ret["pollution"].path = <<1, 2, 3, 4>> /\ ret["pollution"].total_cost = 25

\* Both searches of the line graph have returned and the statistics exist.
C3_Witness ==
    /\ G = LineGraph /\ start_node = 1 /\ end_node = 4
    /\ stats # << >>
    /\ ret["time"].total_cost = 35
    /\ ret["pollution"].total_cost = 25

\* C4: when both nodes exist and the goal cannot be reached, a search never
\* raises, and it returns only with an empty heap, no path and infinite cost.
C4_UnreachableResult ==
    \A w \in Criteria :
        (spc[w] \in {"returned", "raised"} /\ NodesKnown
            /\ ~Reachable(G, start_node, end_node))
        => /\ spc[w] = "returned"
           /\ open_set[w] = {}
           /\ ret[w].path_is_none
           /\ ret[w].path = << >>
           /\ ret[w].total_cost = Infinity

\* A search that explored several nodes has returned unreachable.
C4_Witness ==
    /\ NodesKnown
    /\ ~Reachable(G, start_node, end_node)
    /\ spc["pollution"] = "returned"
    /\ ret["pollution"].path_is_none
    /\ Len(explored_nodes["pollution"]) >= 2

\* C5: when the start or the goal is no node of the graph, a search returns
\* nothing: it has raised, or has not begun, or holds only the start entry
\* whose pop raises; the request then ends with the error.
C5_UnknownNodeRaises ==
    ~NodesKnown =>
        /\ \A w \in Criteria :
              \/ spc[w] \in {"idle", "raised"}
              \/ /\ spc[w] = "while"
                 /\ end_node \in G.nodes
                 /\ open_set[w] = {<<0, 0, start_node>>}
        /\ pc = "done" => response.status = 500 /\ spc["time"] = "raised"

\* A search whose start is unknown and whose goal is known has raised.
C5_Witness ==
    /\ start_node \notin G.nodes
    /\ end_node \in G.nodes
    /\ spc["time"] = "raised"
    /\ explored_nodes["time"] = <<start_node>>
    /\ pc = "done"

NoRepeats(s) == \A i \in DOMAIN s : \A j \in DOMAIN s : s[i] = s[j] => i = j

\* C6: in every state of a search, returned or not, no node occurs twice in
\* the explored-nodes trace.
C6_NoDuplicateExploration ==
    \A w \in Criteria : NoRepeats(explored_nodes[w])

\* The entries popped and discarded so far: every push but the first records
\* an explored edge, every entry popped and kept an explored node.
Discarded(w) ==
    Len(explored_edges[w]) + 1 - Cardinality(open_set[w]) - Len(explored_nodes[w])

\* A stale entry of a closed node has been popped and discarded.
C6_Witness ==
    \E w \in Criteria : spc[w] \notin {"idle", "raised"} /\ Discarded(w) > 0

ZeroStats(st) ==
    /\ st.distance_km = Div(0, 1000)
    /\ st.time_minutes = Div(0, 60)
    /\ st.pollution_score = 0
    /\ st.num_segments = 0
    /\ st.road_types = << >>

\* C7: a search from a node of the graph to itself returns the path of that
\* one node with cost 0 and never raises, and the statistics of that path are
\* all zero with no road type.
C7_TrivialPath ==
    (start_node = end_node /\ start_node \in G.nodes) =>
        /\ \A w \in Criteria :
              /\ spc[w] # "raised"
              /\ spc[w] = "returned" =>
                    /\ ~ret[w].path_is_none
                    /\ ret[w].path = <<start_node>>
                    /\ ret[w].total_cost = 0
        /\ pc = "done" => response.status = 200
        /\ stats # << >> => \A w \in Criteria : ZeroStats(stats[w])

\* The request for a route from a node to itself has been answered.
C7_Witness ==
    /\ start_node = end_node
    /\ start_node \in G.nodes
    /\ pc = "done"
    /\ stats # << >>
    /\ ret["time"].path = <<start_node>>

\* C8: get_route computes statistics and answers with routes only when both
\* searches found a route, and answers not-found when either did not: no
\* answer holds a route beside a missing one.
C8_NoPartialResult ==
    /\ (pc \in {"stats", "respond"} \/ stats # << >> \/ response.status = 200) =>
          /\ Found("time") /\ ret["time"].path # << >>
          /\ Found("pollution") /\ ret["pollution"].path # << >>
    /\ (/\ pc = "done"
        /\ spc["time"] = "returned"
        /\ spc["pollution"] = "returned"
        /\ \E w \in Criteria : ret[w].path_is_none) =>
          response = [status |-> 404]
    /\ response.status = 200 =>
          /\ response.time_route.path # << >>
          /\ response.pollution_route.path # << >>

\* Both searches came back without a route and the answer is not-found.
C8_Witness ==
    /\ pc = "done"
    /\ response.status = 404
    /\ ret["time"].path_is_none
    /\ ret["pollution"].path_is_none

\* The sums of the attributes of the least-cost edges along a path.
MinEdgeTotals(g, path, weight) ==
    LET data(i) == MinEdge(g, path[i], path[i + 1], weight)
        T[i \in 0 .. (Len(path) - 1)] ==
            IF i = 0
            THEN [distance |-> 0, time |-> 0, pollution |-> 0, road_types |-> << >>]
            ELSE LET prev == T[i - 1]
                     road_type == Get(data(i), "road_type", "unknown")
                 IN [distance |-> prev.distance + Get(data(i), "length", 0),
                     time |-> prev.time + Get(data(i), "time", 0),
                     pollution |-> prev.pollution + Get(data(i), "pollution", 0),
                     road_types |-> Put(prev.road_types, road_type,
                                        Get(prev.road_types, road_type, 0) + 1)]
    IN T[Len(path) - 1]

\* C9: the statistics of a returned path are the sums, over its consecutive
\* node pairs, of the length (over 1000), time (over 60) and pollution of the
\* least-cost edge under the route's criterion, with len(path)-1 segments and
\* the count of those edges per road type.
C9_StatsOfMinimumEdges ==
    stats # << >> =>
        \A w \in Criteria :
            LET t == MinEdgeTotals(G, ret[w].path, w)
            IN /\ stats[w].distance_km = Div(t.distance, 1000)
               /\ stats[w].time_minutes = Div(t.time, 60)
               /\ stats[w].pollution_score = t.pollution
               /\ stats[w].num_segments = Len(ret[w].path) - 1
               /\ stats[w].road_types = t.road_types

\* Every edge's weights are as add_pollution_weights gives them: a speed of
\* at most MAX_SPEED_KMH, a multiplier and penalty of at least 1.0, a length
\* of at least the straight-line distance.
FromWeightingScheme(g) ==
    \A u \in g.nodes : \A v \in g.nodes : \A k \in DOMAIN g.adj[u][v] :
        LET d == g.adj[u][v][k]
        IN /\ {"length", "time", "pollution"} \subseteq DOMAIN d
           /\ d.length >= haversine_distance(g.y[u], g.y[v])
           /\ d.time * 1000 * MAX_SPEED_KMH >= d.length * 3600
           /\ d.pollution >= d.length

\* The heuristic carried by a heap entry: f_score - g_score.
EntryH(e) == e[1] - e[2]

\* C10: on a graph weighted by the weighting scheme, the heuristic of every
\* node under every criterion (time, pollution, or any other) is at most
\* the least remaining cost to the goal, and so is the heuristic of every
\* entry the search has pushed.
C10_HeuristicAdmissible ==
    (end_node \in G.nodes /\ FromWeightingScheme(G)) =>
        /\ (pc = "time_search" /\ spc["time"] = "idle") =>
              \A w \in {"time", "pollution", "length"} : Admissible(G, end_node, w)
        /\ \A w \in Criteria : \A e \in open_set[w] \ {<<0, 0, start_node>>} :
              EntryH(e) <= MinPathCost(G, e[3], end_node, w)

\* The time search holds an entry whose positive heuristic is exactly the
\* least remaining time.
C10_Witness ==
    /\ end_node \in G.nodes
    /\ FromWeightingScheme(G)
    /\ \E e \in open_set["time"] :
          /\ EntryH(e) > 0
          /\ EntryH(e) = MinPathCost(G, e[3], end_node, "time")

----------------------------------------------------------------------------
\* The cost of the default segment, DEFAULT_LENGTH metres, in a criterion's
\* unit as the heuristic converts metres, in tenths.
DefaultCostTenths(weight) == h_score(weight, DEFAULT_LENGTH * 10)

\* The key-0 edge from u to v lacks the criterion's attribute.
LacksAttribute(g, u, v, weight) == weight \notin DOMAIN g.adj[u][v][1]

\* C11: an edge without the criterion's attribute is never fatal: no search
\* raises, the edge is relaxed with the cost of the default 100 m segment in
\* the criterion's unit, and the cost a search returns is the sum the
\* statistics report for its path.
C11_MissingAttributeDefaulted ==
    NodesKnown =>
        /\ \A w \in Criteria : spc[w] # "raised"
        /\ pc = "done" => response.status \in {200, 404}
        /\ \A w \in Criteria : \A n \in DOMAIN came_from[w] :
              LacksAttribute(G, came_from[w][n], n, w) =>
                  (g_scores[w][n] - g_scores[w][came_from[w][n]]) * 10
                      = DefaultCostTenths(w)
        /\ stats # << >> =>
              /\ ret["time"].total_cost * stats["time"].time_minutes.den
                    = stats["time"].time_minutes.num * 60
              /\ ret["pollution"].total_cost = stats["pollution"].pollution_score

----------------------------------------------------------------------------
\* Entry e comes first in the order: lower f, then lower g, then lower node.
FirstInOrder(e, heap) ==
    \A o \in heap :
        \/ e[1] < o[1]
        \/ e[1] = o[1] /\ e[2] < o[2]
        \/ e[1] = o[1] /\ e[2] = o[2] /\ e[3] <= o[3]

\* What a search in progress has returned, as astar_pathfinding returns it.
Returned(w) ==
    [raised |-> FALSE, path_is_none |-> ret[w].path_is_none, path |-> ret[w].path,
     total_cost |-> ret[w].total_cost,
     explored_nodes |-> explored_nodes[w], explored_edges |-> explored_edges[w]]

----------------------------------------------------------------------------
\* C13: no step of a search, of the statistics or of get_route changes the
\* graph: its nodes, their coordinates, its edges and their attributes.
C13_GraphUnchanged ==
    [][/\ G'.nodes = G.nodes
       /\ G'.y = G.y
       /\ G'.adj = G.adj]_vars

\* A request whose routes have several edges has been answered in full.
C13_Witness ==
    /\ pc = "done"
    /\ response.status = 200
    /\ Len(ret["time"].path) >= 3
    /\ Len(ret["pollution"].path) >= 3

----------------------------------------------------------------------------
\* The state local to invocation w (lines 32-39 and the loop variables).
Local(w) ==
    <<spc[w], open_set[w], came_from[w], g_scores[w], explored_nodes[w],
      explored_edges[w], closed_set[w], cur[w], ret[w]>>

\* C14: with the steps of the invocations interleaved in any order, a step
\* changes the frontier, closed set, predecessor map, cost map and traces of
\* one invocation only, and an invocation that returned or raised did what
\* it does when run alone from its first line to its last.
C14_InterleavedAsAlone ==
    /\ [](\A w \in Criteria :
            /\ spc[w] = "returned" =>
                  Returned(w) = astar_pathfinding(G, start_node, end_node, w)
            /\ spc[w] = "raised" =>
                  astar_pathfinding(G, start_node, end_node, w).raised)
    /\ [][\E w \in Criteria :
             \A o \in Criteria \ {w} : Local(o)' = Local(o)]_vars

\* One invocation has found its path while the other, started before that,
\* is in the middle of its for loop.
C14_Witness ==
    \E w \in Criteria : \E o \in Criteria \ {w} :
        /\ pc = "parallel"
        /\ Found(w)
        /\ Len(ret[w].path) >= 2
        /\ spc[o] = "for"
        /\ Len(explored_nodes[o]) >= 2

----------------------------------------------------------------------------
\* The three states of node n in search w: unseen, open, closed.
Seen(w, n) == n \in DOMAIN g_scores[w]

Closed(w, n) == n \in closed_set[w]

IsOpen(w, n) == Seen(w, n) /\ ~Closed(w, n)

\* The entries of s2 that s1, a prefix of it, does not have.
Added(s1, s2) == {s2[i] : i \in (Len(s1) + 1) .. Len(s2)}

\* C15: a search that has popped nothing has the start open with g = 0 and
\* nothing else seen; a closed node has been seen, and a node that is open
\* while the loop runs has an entry in the frontier; a seen node stays seen
\* and a closed node stays closed; the cost and the predecessor of a closed
\* node do not change, and no explored edge and no frontier entry is added
\* for it.
C15_NodeStatesForward ==
    /\ [](\A w \in Criteria :
            /\ spc[w] = "while" /\ explored_nodes[w] = << >> =>
                  /\ open_set[w] = {<<0, 0, start_node>>}
                  /\ g_scores[w] = Put(<< >>, start_node, 0)
                  /\ IsOpen(w, start_node)
                  /\ came_from[w] = << >>
            /\ closed_set[w] \subseteq DOMAIN g_scores[w]
            /\ spc[w] \in {"while", "for"} =>
                  \A n \in DOMAIN g_scores[w] :
                      IsOpen(w, n) => \E e \in open_set[w] : e[3] = n)
    /\ [][\A w \in Criteria :
             /\ DOMAIN g_scores[w] \subseteq DOMAIN g_scores'[w]
             /\ closed_set[w] \subseteq closed_set'[w]
             /\ \A n \in closed_set[w] :
                   /\ g_scores'[w][n] = g_scores[w][n]
                   /\ (n \in DOMAIN came_from'[w]) = (n \in DOMAIN came_from[w])
                   /\ n \in DOMAIN came_from[w] => came_from'[w][n] = came_from[w][n]
                   /\ \A e \in open_set'[w] \ open_set[w] : e[3] # n
                   /\ \A d \in Added(explored_edges[w], explored_edges'[w]) :
                         d[2] # n]_vars

\* A relaxation has just met a closed neighbour and left everything of it
\* as it was.
C15_Witness ==
    \E w \in Criteria :
        /\ spc[w] = "for"
        /\ LET nbrs == neighbors(G, cur[w].node).nodes
           IN \E i \in DOMAIN nbrs :
                 /\ i <= Len(nbrs) - Len(cur[w].todo)
                 /\ Closed(w, nbrs[i])
                 /\ nbrs[i] \in DOMAIN came_from[w]

----------------------------------------------------------------------------
\* Search w has returned a path, and the last node it popped is the goal.
Success(w) ==
    /\ Found(w)
    /\ explored_nodes[w] # << >>
    /\ explored_nodes[w][Len(explored_nodes[w])] = end_node

\* Search w has returned no path, with its frontier empty.
Unreachable(w) ==
    /\ spc[w] = "returned"
    /\ ret[w].path_is_none
    /\ open_set[w] = {}

\* C16: on a graph that has the start and the goal, a search that is called
\* returns in the end and raises nothing; a search that has returned has
\* either popped the goal and returned a path or emptied its frontier and
\* returned none; and the step that returns a path pops the goal as the
\* entry of least priority.
C16_Terminates ==
    /\ \A w \in Criteria :
          (NodesKnown /\ Active(w)) ~> (spc[w] = "returned")
    /\ [](\A w \in Criteria :
            /\ NodesKnown => spc[w] # "raised"
            /\ spc[w] = "returned" => (Success(w) /\ ~Unreachable(w))
                                         \/ (Unreachable(w) /\ ~Success(w)))
    /\ [][\A w \in Criteria :
             spc[w] # "returned" /\ spc'[w] = "returned" /\ ~ret'[w].path_is_none =>
                 \E e \in HeapMinima(open_set[w]) :
                     /\ e[3] = end_node
                     /\ open_set'[w] = open_set[w] \ {e}]_vars

\* Both searches of a request have returned a path, the pollution search
\* after discarding an entry and with entries left in its frontier.
C16_Witness ==
    /\ pc = "check"
    /\ Success("time")
    /\ Success("pollution")
    /\ open_set["pollution"] # {}
    /\ Len(explored_nodes["pollution"]) >= 3

----------------------------------------------------------------------------
\* The nodes of sequence s.
Range(s) == {s[i] : i \in DOMAIN s}

\* The graph has an edge u -> v.
HasEdge(g, u, v) == u \in g.nodes /\ v \in g.nodes /\ g.adj[u][v] # << >>

\* C17: a returned path starts at the start and ends at the goal, each of
\* its steps is an edge of the graph, no node is on it twice, and each of
\* its nodes is in the explored-nodes trace, which ends with the goal.
C17_PathWellFormed ==
    \A w \in Criteria :
        Found(w) =>
            LET path == ret[w].path
                trace == explored_nodes[w]
            IN /\ path # << >>
               /\ path[1] = start_node
               /\ path[Len(path)] = end_node
               /\ \A i \in 1 .. (Len(path) - 1) : HasEdge(G, path[i], path[i + 1])
               /\ NoRepeats(path)
               /\ Range(path) \subseteq Range(trace)
               /\ trace # << >>
               /\ trace[Len(trace)] = end_node

\* A returned path of three nodes or more, found after exploring a node
\* that is not on it.
C17_Witness ==
    \E w \in Criteria :
        /\ Found(w)
        /\ Len(ret[w].path) >= 3
        /\ Range(explored_nodes[w]) \ Range(ret[w].path) # {}

====
